---- MODULE Spec2Model ----
(***************************************************************************)
(* Model of the transaction processing engine: ClientsStatesMgr (the       *)
(* account ledger), TransactionMgr (the transaction journal) and           *)
(* TransactionsProcessor (the router draining a TransactionLoader).        *)
(*                                                                         *)
(* Amounts are f32 in the source.  The model keeps f32 semantics on the    *)
(* values it uses: integer-valued finite floats (rounded to 24 significant *)
(* bits, ties to even), +inf, -inf and NaN.                                *)
(***************************************************************************)
EXTENDS Integers, Sequences, FiniteSets, TLC

\* ------------------------------------------------------------------ bounds
NumClients == 2
MaxTx == 2
MaxStream == 4

\* f32 has a 24 bit significand: integers below 2^24 are exact.
TwoPow24 == 16777216

\* ------------------------------------------------------------------ f32
Fin(n) == [k |-> "fin", v |-> n]
PInf == [k |-> "inf", v |-> 0]
NInf == [k |-> "ninf", v |-> 0]
NaN == [k |-> "nan", v |-> 0]

Abs(n) == IF n < 0 THEN 0 - n ELSE n

RECURSIVE Ulp(_)
\* spacing of f32 values around the magnitude m (m an integer >= 0)
Ulp(m) == IF m < TwoPow24 THEN 1 ELSE 2 * Ulp(m \div 2)

\* round the integer n to the nearest f32, ties to even
RoundF32(n) ==
    LET m == Abs(n)
        u == Ulp(m)
        q == m \div u
        r == m % u
        up == (2 * r > u) \/ (2 * r = u /\ q % 2 = 1)
        mag == (IF up THEN q + 1 ELSE q) * u
    IN IF n < 0 THEN 0 - mag ELSE mag

FNeg(a) ==
    CASE a.k = "fin" -> Fin(0 - a.v)
      [] a.k = "inf" -> NInf
      [] a.k = "ninf" -> PInf
      [] OTHER -> NaN

\* a + b in f32
FAdd(a, b) ==
    CASE a.k = "nan" \/ b.k = "nan" -> NaN
      [] a.k = "fin" /\ b.k = "fin" -> Fin(RoundF32(a.v + b.v))
      [] a.k = "fin" -> b
      [] b.k = "fin" -> a
      [] a.k = b.k -> a
      [] OTHER -> NaN

\* a - b in f32
FSub(a, b) == FAdd(a, FNeg(b))

\* a >= b in f32 (false when either is NaN)
FGe(a, b) ==
    CASE a.k = "nan" \/ b.k = "nan" -> FALSE
      [] a.k = "fin" /\ b.k = "fin" -> a.v >= b.v
      [] a.k = "inf" -> TRUE
      [] b.k = "ninf" -> TRUE
      [] OTHER -> FALSE

\* a <= b in f32
FLe(a, b) == FGe(b, a)

\* a == b in f32 (NaN equals nothing)
FEq(a, b) == FGe(a, b) /\ FGe(b, a)

\* ------------------------------------------------------------------ types
\* Option<T>: None is the empty tuple, Some(x) the one-element tuple
None == <<>>
Some(x) == <<x>>
is_none(o) == o = <<>>
is_some(o) == o # <<>>
unwrap(o) == o[1]

TransactionType == {"Deposit", "Withdrawal", "Dispute", "Resolve", "Chargeback", "Unknown"}

Clients == 1..NumClients
TxIds == 1..MaxTx

\* the amounts an incoming record may carry
AmountValues == {Fin(0), Fin(1), Fin(TwoPow24), PInf, NaN}
Amounts == {None} \cup {Some(x) : x \in AmountValues}

\* the records the loader may hand out: a deposit or withdrawal carries any of
\* the amounts, the other kinds carry an amount or none
TransactionDetails ==
    [transaction_type : {"Deposit", "Withdrawal"}, client : Clients, tx : TxIds,
     amount : Amounts]
    \cup
    [transaction_type : {"Dispute", "Resolve", "Chargeback", "Unknown"}, client : Clients,
     tx : TxIds, amount : {None, Some(Fin(1))}]

ClientState(client_id) ==
    [client |-> client_id, available |-> Fin(0), held |-> Fin(0), total |-> Fin(0),
     locked |-> FALSE]

VARIABLES
    clients_states,   \* ClientsStatesMgr.clients_states: client id -> ClientState
    id_to_details,    \* TransactionMgr.id_to_details: tx id -> TransactionDetails
    records_len,      \* TransactionIOLoader.transaction_records.len()
    curr_idx,         \* TransactionIOLoader.curr_idx: number of records handed out
    last_action,      \* the final record of the stream, once it is processed
    last_result,      \* what its handler returned
    prev_states,      \* clients_states before the final record
    prev_details,     \* id_to_details before the final record
    charged_back,     \* history: the accounts a chargeback has been accepted on
    open_disputes,    \* history: the transaction ids whose last accepted
                      \* lifecycle record is a dispute
    disputed,         \* history: the accounts a dispute has been accepted on
    ideal             \* history: per account, the exact sums of the amounts of
                      \* the accepted records that count for total and for held

vars == <<clients_states, id_to_details, records_len, curr_idx,
          last_action, last_result, prev_states, prev_details,
          charged_back, open_disputes, disputed, ideal>>

\* ------------------------------------------------------------------ ClientsStatesMgr
\* every operation returns [ok, cs]: the boolean it returns and the map it leaves

get_client_details(cs, client_id) ==
    IF client_id \in DOMAIN cs THEN Some(cs[client_id]) ELSE None

Put(cs, client_id, data) ==
    [c \in (DOMAIN cs) \cup {client_id} |-> IF c = client_id THEN data ELSE cs[c]]

\* mutant: insert instead of or_insert_with, the account is reset on every deposit
ClientsStatesMgr_apply_deposit_Reinsert(cs, client_id, amount) ==
    LET data == ClientState(client_id)
        upd == [data EXCEPT !.available = FAdd(data.available, amount),
                            !.total = FAdd(data.total, amount)]
    IN [ok |-> TRUE, cs |-> Put(cs, client_id, upd)]

\* mutant: a locked account refuses the deposit
ClientsStatesMgr_apply_deposit_RefusesLocked(cs, client_id, amount) ==
    LET data == IF client_id \in DOMAIN cs THEN cs[client_id] ELSE ClientState(client_id)
        upd == [data EXCEPT !.available = FAdd(data.available, amount),
                            !.total = FAdd(data.total, amount)]
    IN IF data.locked THEN [ok |-> FALSE, cs |-> cs]
       ELSE [ok |-> TRUE, cs |-> Put(cs, client_id, upd)]

\* mutant: total is not updated
ClientsStatesMgr_apply_deposit_NoTotal(cs, client_id, amount) ==
    LET data == IF client_id \in DOMAIN cs THEN cs[client_id] ELSE ClientState(client_id)
        upd == [data EXCEPT !.available = FAdd(data.available, amount)]
    IN [ok |-> TRUE, cs |-> Put(cs, client_id, upd)]

ClientsStatesMgr_apply_deposit(cs, client_id, amount) ==
    LET data == IF client_id \in DOMAIN cs THEN cs[client_id] ELSE ClientState(client_id)
        upd == [data EXCEPT !.available = FAdd(data.available, amount),
                            !.total = FAdd(data.total, amount)]
    IN [ok |-> TRUE, cs |-> Put(cs, client_id, upd)]

\* mutant: available > amount instead of available >= amount
ClientsStatesMgr_apply_withdrawal_Strict(cs, client_id, amount) ==
    LET found == get_client_details(cs, client_id)
    IN IF is_none(found) \/ ~FGe(unwrap(found).available, amount)
          \/ FEq(unwrap(found).available, amount)
       THEN [ok |-> FALSE, cs |-> cs]
       ELSE LET data == unwrap(found)
                upd == [data EXCEPT !.available = FSub(data.available, amount),
                                    !.total = FSub(data.total, amount)]
            IN [ok |-> TRUE, cs |-> Put(cs, client_id, upd)]

ClientsStatesMgr_apply_withdrawal(cs, client_id, amount) ==
    LET found == get_client_details(cs, client_id)
    IN IF is_none(found) \/ ~FGe(unwrap(found).available, amount)
       THEN [ok |-> FALSE, cs |-> cs]
       ELSE LET data == unwrap(found)
                upd == [data EXCEPT !.available = FSub(data.available, amount),
                                    !.total = FSub(data.total, amount)]
            IN [ok |-> TRUE, cs |-> Put(cs, client_id, upd)]

\* mutant: the dispute also takes the amount off total, as a withdrawal does
ClientsStatesMgr_apply_dispute_TakesTotal(cs, client_id, amount) ==
    LET found == get_client_details(cs, client_id)
    IN IF is_none(found) \/ ~FGe(unwrap(found).available, amount)
       THEN [ok |-> FALSE, cs |-> cs]
       ELSE LET data == unwrap(found)
                upd == [data EXCEPT !.available = FSub(data.available, amount),
                                    !.held = FAdd(data.held, amount),
                                    !.total = FSub(data.total, amount)]
            IN [ok |-> TRUE, cs |-> Put(cs, client_id, upd)]

\* mutant: opening a dispute locks the account
ClientsStatesMgr_apply_dispute_Locks(cs, client_id, amount) ==
    LET found == get_client_details(cs, client_id)
    IN IF is_none(found) \/ ~FGe(unwrap(found).available, amount)
       THEN [ok |-> FALSE, cs |-> cs]
       ELSE LET data == unwrap(found)
                upd == [data EXCEPT !.available = FSub(data.available, amount),
                                    !.held = FAdd(data.held, amount),
                                    !.locked = TRUE]
            IN [ok |-> TRUE, cs |-> Put(cs, client_id, upd)]

ClientsStatesMgr_apply_dispute(cs, client_id, amount) ==
    LET found == get_client_details(cs, client_id)
    IN IF is_none(found) \/ ~FGe(unwrap(found).available, amount)
       THEN [ok |-> FALSE, cs |-> cs]
       ELSE LET data == unwrap(found)
                upd == [data EXCEPT !.available = FSub(data.available, amount),
                                    !.held = FAdd(data.held, amount)]
            IN [ok |-> TRUE, cs |-> Put(cs, client_id, upd)]

ClientsStatesMgr_apply_resolve(cs, client_id, amount) ==
    LET found == get_client_details(cs, client_id)
    IN IF is_none(found) \/ ~FGe(unwrap(found).held, amount)
       THEN [ok |-> FALSE, cs |-> cs]
       ELSE LET data == unwrap(found)
                upd == [data EXCEPT !.available = FAdd(data.available, amount),
                                    !.held = FSub(data.held, amount)]
            IN [ok |-> TRUE, cs |-> Put(cs, client_id, upd)]

ClientsStatesMgr_apply_chargeback(cs, client_id, amount) ==
    LET found == get_client_details(cs, client_id)
    IN IF is_none(found) \/ ~FGe(unwrap(found).held, amount)
       THEN [ok |-> FALSE, cs |-> cs]
       ELSE LET data == unwrap(found)
                upd == [data EXCEPT !.total = FSub(data.total, amount),
                                    !.held = FSub(data.held, amount),
                                    !.locked = TRUE]
            IN [ok |-> TRUE, cs |-> Put(cs, client_id, upd)]

\* the snapshot: every account's state, unordered
get_states(cs) == {cs[c] : c \in DOMAIN cs}

\* ------------------------------------------------------------------ TransactionMgr
\* returns [ok, jr]
insert_new_transaction(jr, transaction) ==
    IF transaction.transaction_type # "Deposit" /\ transaction.transaction_type # "Withdrawal"
    THEN [ok |-> FALSE, jr |-> jr]
    ELSE IF is_none(transaction.amount) \/ ~FGe(unwrap(transaction.amount), Fin(0))
    THEN [ok |-> FALSE, jr |-> jr]
    ELSE IF transaction.tx \in DOMAIN jr
    THEN [ok |-> FALSE, jr |-> jr]
    ELSE [ok |-> TRUE,
          jr |-> [t \in (DOMAIN jr) \cup {transaction.tx} |->
                    IF t = transaction.tx THEN transaction ELSE jr[t]]]

\* mutant: the record is looked up by id alone
get_transaction_AnyClient(jr, id, client_id) ==
    IF id \in DOMAIN jr THEN Some(jr[id]) ELSE None

get_transaction(jr, id, client_id) ==
    IF id \in DOMAIN jr /\ jr[id].client = client_id THEN Some(jr[id]) ELSE None

transaction_exist(jr, id) == id \in DOMAIN jr

\* ------------------------------------------------------------------ TransactionsProcessor
\* every handler returns [ok, cs, jr]
Rejected(cs, jr) == [ok |-> FALSE, cs |-> cs, jr |-> jr]

\* mutant: the duplicate check looks the id up for the acting client only
TransactionsProcessor_apply_deposit_ClientScopedCheck(cs, jr, a) ==
    IF a.transaction_type # "Deposit" \/ is_none(a.amount) THEN Rejected(cs, jr)
    ELSE LET amount == unwrap(a.amount) IN
    IF FLe(amount, Fin(0)) THEN Rejected(cs, jr)
    ELSE IF is_some(get_transaction(jr, a.tx, a.client)) THEN Rejected(cs, jr)
    ELSE LET r == ClientsStatesMgr_apply_deposit(cs, a.client, amount) IN
    IF ~r.ok THEN Rejected(r.cs, jr)
    ELSE LET ins == insert_new_transaction(jr, a)
         IN [ok |-> ins.ok, cs |-> r.cs, jr |-> ins.jr]

\* mutant: amount < 0 instead of amount <= 0, a deposit of 0 goes through
TransactionsProcessor_apply_deposit_AllowsZero(cs, jr, a) ==
    IF a.transaction_type # "Deposit" \/ is_none(a.amount) THEN Rejected(cs, jr)
    ELSE LET amount == unwrap(a.amount) IN
    IF FLe(amount, Fin(0)) /\ ~FGe(amount, Fin(0)) THEN Rejected(cs, jr)
    ELSE IF transaction_exist(jr, a.tx) THEN Rejected(cs, jr)
    ELSE LET r == ClientsStatesMgr_apply_deposit(cs, a.client, amount) IN
    IF ~r.ok THEN Rejected(r.cs, jr)
    ELSE LET ins == insert_new_transaction(jr, a)
         IN [ok |-> ins.ok, cs |-> r.cs, jr |-> ins.jr]

TransactionsProcessor_apply_deposit(cs, jr, a) ==
    IF a.transaction_type # "Deposit" \/ is_none(a.amount) THEN Rejected(cs, jr)
    ELSE LET amount == unwrap(a.amount) IN
    IF FLe(amount, Fin(0)) THEN Rejected(cs, jr)
    ELSE IF transaction_exist(jr, a.tx) THEN Rejected(cs, jr)
    ELSE LET r == ClientsStatesMgr_apply_deposit(cs, a.client, amount) IN
    IF ~r.ok THEN Rejected(r.cs, jr)
    ELSE LET ins == insert_new_transaction(jr, a)
         IN [ok |-> ins.ok, cs |-> r.cs, jr |-> ins.jr]

\* mutant: the record is journaled before the ledger is asked
TransactionsProcessor_apply_withdrawal_JournalsFirst(cs, jr, a) ==
    IF a.transaction_type # "Withdrawal" \/ is_none(a.amount) THEN Rejected(cs, jr)
    ELSE IF transaction_exist(jr, a.tx) THEN Rejected(cs, jr)
    ELSE LET amount == unwrap(a.amount) IN
    IF FLe(amount, Fin(0)) THEN Rejected(cs, jr)
    ELSE LET ins == insert_new_transaction(jr, a)
             r == ClientsStatesMgr_apply_withdrawal(cs, a.client, amount)
         IN [ok |-> r.ok /\ ins.ok, cs |-> r.cs, jr |-> ins.jr]

\* mutant: no duplicate check, and the record is stored over the journaled one
TransactionsProcessor_apply_withdrawal_Overwrite(cs, jr, a) ==
    IF a.transaction_type # "Withdrawal" \/ is_none(a.amount) THEN Rejected(cs, jr)
    ELSE LET amount == unwrap(a.amount) IN
    IF FLe(amount, Fin(0)) THEN Rejected(cs, jr)
    ELSE LET r == ClientsStatesMgr_apply_withdrawal(cs, a.client, amount) IN
    IF ~r.ok THEN Rejected(r.cs, jr)
    ELSE [ok |-> TRUE, cs |-> r.cs,
          jr |-> [t \in (DOMAIN jr) \cup {a.tx} |-> IF t = a.tx THEN a ELSE jr[t]]]

\* mutant: the amount <= 0 check is missing
TransactionsProcessor_apply_withdrawal_NoSignCheck(cs, jr, a) ==
    IF a.transaction_type # "Withdrawal" \/ is_none(a.amount) THEN Rejected(cs, jr)
    ELSE IF transaction_exist(jr, a.tx) THEN Rejected(cs, jr)
    ELSE LET amount == unwrap(a.amount)
             r == ClientsStatesMgr_apply_withdrawal(cs, a.client, amount) IN
    IF ~r.ok THEN Rejected(r.cs, jr)
    ELSE LET ins == insert_new_transaction(jr, a)
         IN [ok |-> ins.ok, cs |-> r.cs, jr |-> ins.jr]

TransactionsProcessor_apply_withdrawal(cs, jr, a) ==
    IF a.transaction_type # "Withdrawal" \/ is_none(a.amount) THEN Rejected(cs, jr)
    ELSE IF transaction_exist(jr, a.tx) THEN Rejected(cs, jr)
    ELSE LET amount == unwrap(a.amount) IN
    IF FLe(amount, Fin(0)) THEN Rejected(cs, jr)
    ELSE LET r == ClientsStatesMgr_apply_withdrawal(cs, a.client, amount) IN
    IF ~r.ok THEN Rejected(r.cs, jr)
    ELSE LET ins == insert_new_transaction(jr, a)
         IN [ok |-> ins.ok, cs |-> r.cs, jr |-> ins.jr]

\* mutant: a transaction that is not found is disputed with amount 0
TransactionsProcessor_apply_dispute_DefaultAmount(cs, jr, a) ==
    IF a.transaction_type # "Dispute" \/ is_some(a.amount) THEN Rejected(cs, jr)
    ELSE LET transaction == get_transaction(jr, a.tx, a.client)
             amount == IF is_none(transaction) THEN Fin(0)
                       ELSE unwrap(unwrap(transaction).amount)
             r == ClientsStatesMgr_apply_dispute(cs, a.client, amount)
         IN [ok |-> r.ok, cs |-> r.cs, jr |-> jr]

\* mutant: the disputed record is looked up by id alone
TransactionsProcessor_apply_dispute_AnyClient(cs, jr, a) ==
    IF a.transaction_type # "Dispute" \/ is_some(a.amount) THEN Rejected(cs, jr)
    ELSE IF ~transaction_exist(jr, a.tx) THEN Rejected(cs, jr)
    ELSE LET amount == unwrap(jr[a.tx].amount)
             r == ClientsStatesMgr_apply_dispute(cs, a.client, amount)
         IN [ok |-> r.ok, cs |-> r.cs, jr |-> jr]

TransactionsProcessor_apply_dispute(cs, jr, a) ==
    IF a.transaction_type # "Dispute" \/ is_some(a.amount) THEN Rejected(cs, jr)
    ELSE LET transaction == get_transaction(jr, a.tx, a.client) IN
    IF is_none(transaction) THEN Rejected(cs, jr)
    ELSE LET amount == unwrap(unwrap(transaction).amount)
             r == ClientsStatesMgr_apply_dispute(cs, a.client, amount)
         IN [ok |-> r.ok, cs |-> r.cs, jr |-> jr]

\* mutant: the record is looked up by id alone and its owner's account is resolved
TransactionsProcessor_apply_resolve_OnRecordOwner(cs, jr, a) ==
    IF a.transaction_type # "Resolve" \/ is_some(a.amount) THEN Rejected(cs, jr)
    ELSE IF a.tx \notin DOMAIN jr THEN Rejected(cs, jr)
    ELSE LET amount == unwrap(jr[a.tx].amount)
             r == ClientsStatesMgr_apply_resolve(cs, jr[a.tx].client, amount)
         IN [ok |-> r.ok, cs |-> r.cs, jr |-> jr]

TransactionsProcessor_apply_resolve(cs, jr, a) ==
    IF a.transaction_type # "Resolve" \/ is_some(a.amount) THEN Rejected(cs, jr)
    ELSE LET transaction == get_transaction(jr, a.tx, a.client) IN
    IF is_none(transaction) THEN Rejected(cs, jr)
    ELSE LET amount == unwrap(unwrap(transaction).amount)
             r == ClientsStatesMgr_apply_resolve(cs, a.client, amount)
         IN [ok |-> r.ok, cs |-> r.cs, jr |-> jr]

\* mutant: the record is looked up by id alone and its client is not compared
TransactionsProcessor_apply_chargeback_AnyClient(cs, jr, a) ==
    IF a.transaction_type # "Chargeback" \/ is_some(a.amount) THEN Rejected(cs, jr)
    ELSE IF ~transaction_exist(jr, a.tx) THEN Rejected(cs, jr)
    ELSE LET amount == unwrap(jr[a.tx].amount)
             r == ClientsStatesMgr_apply_chargeback(cs, a.client, amount)
         IN [ok |-> r.ok, cs |-> r.cs, jr |-> jr]

TransactionsProcessor_apply_chargeback(cs, jr, a) ==
    IF a.transaction_type # "Chargeback" \/ is_some(a.amount) THEN Rejected(cs, jr)
    ELSE LET transaction == get_transaction(jr, a.tx, a.client) IN
    IF is_none(transaction) THEN Rejected(cs, jr)
    ELSE IF unwrap(transaction).client # a.client THEN Rejected(cs, jr)
    ELSE LET amount == unwrap(unwrap(transaction).amount)
             r == ClientsStatesMgr_apply_chargeback(cs, a.client, amount)
         IN [ok |-> r.ok, cs |-> r.cs, jr |-> jr]

\* mutant: an unrecognized kind is reported as applied
TransactionsProcessor_apply_unknown_Accepts(cs, jr, a) ==
    [ok |-> TRUE, cs |-> cs, jr |-> jr]

\* the match arm TransactionType::Unknown => false
TransactionsProcessor_apply_unknown(cs, jr, a) == Rejected(cs, jr)

\* the match of apply_transaction_actions: the handler record a is dispatched to
HandlerResult(cs, jr, a) ==
    CASE a.transaction_type = "Deposit" -> TransactionsProcessor_apply_deposit(cs, jr, a)
      [] a.transaction_type = "Withdrawal" -> TransactionsProcessor_apply_withdrawal(cs, jr, a)
      [] a.transaction_type = "Dispute" -> TransactionsProcessor_apply_dispute(cs, jr, a)
      [] a.transaction_type = "Resolve" -> TransactionsProcessor_apply_resolve(cs, jr, a)
      [] a.transaction_type = "Chargeback" -> TransactionsProcessor_apply_chargeback(cs, jr, a)
      [] OTHER -> TransactionsProcessor_apply_unknown(cs, jr, a)

\* ------------------------------------------------------------------ the run
Empty == [x \in {} |-> 0]

NoAction == [transaction_type |-> "Unknown", client |-> 0, tx |-> 0, amount |-> None]

DepositRecords == {a \in TransactionDetails : a.transaction_type = "Deposit"}
WithdrawalRecords == {a \in TransactionDetails : a.transaction_type = "Withdrawal"}
DisputeRecords == {a \in TransactionDetails : a.transaction_type = "Dispute"}
ResolveRecords == {a \in TransactionDetails : a.transaction_type = "Resolve"}
ChargebackRecords == {a \in TransactionDetails : a.transaction_type = "Chargeback"}
UnknownRecords == {a \in TransactionDetails : a.transaction_type = "Unknown"}

\* no record accepted yet: every sum is 0
NoSums == [c \in Clients |-> [total |-> Fin(0), held |-> Fin(0)]]

Init ==
    /\ clients_states = Empty
    /\ id_to_details = Empty
    /\ records_len = MaxStream
    /\ curr_idx = 0
    /\ last_action = NoAction
    /\ last_result = FALSE
    /\ prev_states = Empty
    /\ prev_details = Empty
    /\ charged_back = {}
    /\ open_disputes = {}
    /\ disputed = {}
    /\ ideal = NoSums

\* the loop has drained the stream: next_transaction returned None
Done == curr_idx = records_len

\* One turn of the loop of apply_transaction_actions (the actions below test
\* ~Done, the while condition, before they draw a record): next_transaction hands out
\* record a and the handler's outcome r is what the two managers hold afterwards.
\* The record, its result and the state before it are kept for the final record;
\* accepted chargebacks and the disputes left open are kept throughout.
Handle(a, r) ==
    /\ curr_idx < records_len
    /\ curr_idx' = curr_idx + 1
    /\ clients_states' = r.cs
    /\ id_to_details' = r.jr
    /\ IF curr_idx + 1 = records_len
       THEN /\ last_action' = a
            /\ last_result' = r.ok
            /\ prev_states' = clients_states
            /\ prev_details' = id_to_details
       ELSE UNCHANGED <<last_action, last_result, prev_states, prev_details>>
    /\ charged_back' = IF a.transaction_type = "Chargeback" /\ r.ok
                       THEN charged_back \cup {a.client}
                       ELSE charged_back
    /\ open_disputes' = IF a.transaction_type = "Dispute" /\ r.ok
                        THEN open_disputes \cup {a.tx}
                        ELSE IF a.transaction_type \in {"Resolve", "Chargeback"} /\ r.ok
                        THEN open_disputes \ {a.tx}
                        ELSE open_disputes
    /\ UNCHANGED <<records_len, disputed, ideal>>

Deposit ==
    /\ ~Done
    /\ \E a \in DepositRecords :
         Handle(a, TransactionsProcessor_apply_deposit(clients_states, id_to_details, a))

Withdrawal ==
    /\ ~Done
    /\ \E a \in WithdrawalRecords :
         Handle(a, TransactionsProcessor_apply_withdrawal(clients_states, id_to_details, a))

Dispute ==
    /\ ~Done
    /\ \E a \in DisputeRecords :
         Handle(a, TransactionsProcessor_apply_dispute(clients_states, id_to_details, a))

Resolve ==
    /\ ~Done
    /\ \E a \in ResolveRecords :
         Handle(a, TransactionsProcessor_apply_resolve(clients_states, id_to_details, a))

Chargeback ==
    /\ ~Done
    /\ \E a \in ChargebackRecords :
         Handle(a, TransactionsProcessor_apply_chargeback(clients_states, id_to_details, a))

Unknown ==
    /\ ~Done
    /\ \E a \in UnknownRecords :
         Handle(a, TransactionsProcessor_apply_unknown(clients_states, id_to_details, a))

Next ==
    \/ Deposit
    \/ Withdrawal
    \/ Dispute
    \/ Resolve
    \/ Chargeback
    \/ Unknown

Spec == Init /\ [][Next]_vars

\* ------------------------------------------------------------------ the run, with its history
\* The same loop over a stream of any length up to MaxStream.  Instead of the
\* final record, these steps keep the running history of the accepted records:
\* the accounts charged back and disputed, the disputes left open and the exact
\* sums of the accepted amounts.

\* a + b without rounding
XAdd(a, b) ==
    CASE a.k = "nan" \/ b.k = "nan" -> NaN
      [] a.k = "fin" /\ b.k = "fin" -> Fin(a.v + b.v)
      [] a.k = "fin" -> b
      [] b.k = "fin" -> a
      [] a.k = b.k -> a
      [] OTHER -> NaN

XSub(a, b) == XAdd(a, FNeg(b))

\* the amount record a moves: its own for a deposit or withdrawal, the journaled
\* one for a dispute, resolve or chargeback
AmountOf(jr, a) ==
    IF a.transaction_type \in {"Deposit", "Withdrawal"}
    THEN IF is_some(a.amount) THEN unwrap(a.amount) ELSE Fin(0)
    ELSE IF a.tx \in DOMAIN jr THEN unwrap(jr[a.tx].amount) ELSE Fin(0)

\* the exact sums once record a, with result ok, is counted
SumsAfter(sums, jr, a, ok) ==
    IF ~ok \/ a.client \notin DOMAIN sums THEN sums
    ELSE LET amt == AmountOf(jr, a)
             i == sums[a.client]
         IN [sums EXCEPT ![a.client] =
               CASE a.transaction_type = "Deposit" ->
                      [i EXCEPT !.total = XAdd(i.total, amt)]
                 [] a.transaction_type = "Withdrawal" ->
                      [i EXCEPT !.total = XSub(i.total, amt)]
                 [] a.transaction_type = "Dispute" ->
                      [i EXCEPT !.held = XAdd(i.held, amt)]
                 [] a.transaction_type = "Resolve" ->
                      [i EXCEPT !.held = XSub(i.held, amt)]
                 [] a.transaction_type = "Chargeback" ->
                      [i EXCEPT !.total = XSub(i.total, amt),
                                !.held = XSub(i.held, amt)]
                 [] OTHER -> i]

HistInit ==
    /\ clients_states = Empty
    /\ id_to_details = Empty
    /\ records_len \in 0..MaxStream
    /\ curr_idx = 0
    /\ last_action = NoAction
    /\ last_result = FALSE
    /\ prev_states = Empty
    /\ prev_details = Empty
    /\ charged_back = {}
    /\ open_disputes = {}
    /\ disputed = {}
    /\ ideal = NoSums

\* one turn of the loop: record a is handed out and handled with outcome r
Record(a, r) ==
    /\ curr_idx' = curr_idx + 1
    /\ clients_states' = r.cs
    /\ id_to_details' = r.jr
    /\ charged_back' = IF a.transaction_type = "Chargeback" /\ r.ok
                       THEN charged_back \cup {a.client}
                       ELSE charged_back
    /\ open_disputes' = IF a.transaction_type = "Dispute" /\ r.ok
                        THEN open_disputes \cup {a.tx}
                        ELSE IF a.transaction_type \in {"Resolve", "Chargeback"} /\ r.ok
                        THEN open_disputes \ {a.tx}
                        ELSE open_disputes
    /\ disputed' = IF a.transaction_type = "Dispute" /\ r.ok
                   THEN disputed \cup {a.client}
                   ELSE disputed
    /\ ideal' = SumsAfter(ideal, id_to_details, a, r.ok)
    /\ UNCHANGED <<records_len, last_action, last_result, prev_states, prev_details>>

HistDeposit ==
    /\ ~Done
    /\ \E a \in DepositRecords :
         Record(a, TransactionsProcessor_apply_deposit(clients_states, id_to_details, a))

HistWithdrawal ==
    /\ ~Done
    /\ \E a \in WithdrawalRecords :
         Record(a, TransactionsProcessor_apply_withdrawal(clients_states, id_to_details, a))

HistDispute ==
    /\ ~Done
    /\ \E a \in DisputeRecords :
         Record(a, TransactionsProcessor_apply_dispute(clients_states, id_to_details, a))

HistResolve ==
    /\ ~Done
    /\ \E a \in ResolveRecords :
         Record(a, TransactionsProcessor_apply_resolve(clients_states, id_to_details, a))

HistChargeback ==
    /\ ~Done
    /\ \E a \in ChargebackRecords :
         Record(a, TransactionsProcessor_apply_chargeback(clients_states, id_to_details, a))

HistUnknown ==
    /\ ~Done
    /\ \E a \in UnknownRecords :
         Record(a, TransactionsProcessor_apply_unknown(clients_states, id_to_details, a))

HistNext ==
    \/ HistDeposit
    \/ HistWithdrawal
    \/ HistDispute
    \/ HistResolve
    \/ HistChargeback
    \/ HistUnknown

HistSpec == HistInit /\ [][HistNext]_vars

\* the loop is never suspended: while a record is left, it is taken
LiveSpec == HistSpec /\ WF_vars(HistNext)

\* The same loop over the part of a stream that leaves two records to come.
PrefixInit ==
    /\ clients_states = Empty
    /\ id_to_details = Empty
    /\ records_len = MaxStream - 2
    /\ curr_idx = 0
    /\ last_action = NoAction
    /\ last_result = FALSE
    /\ prev_states = Empty
    /\ prev_details = Empty
    /\ charged_back = {}
    /\ open_disputes = {}
    /\ disputed = {}
    /\ ideal = NoSums

PrefixSpec == PrefixInit /\ [][HistNext]_vars

\* ------------------------------------------------------------------ vocabulary of the claims
Lifecycle == {"Dispute", "Resolve", "Chargeback"}

\* the records of the kinds that reference a journaled transaction, and of the
\* kinds that are journaled
LifecycleRecords == DisputeRecords \cup ResolveRecords \cup ChargebackRecords
JournaledKindRecords == DepositRecords \cup WithdrawalRecords
ClosingRecords == ResolveRecords \cup ChargebackRecords

\* the account as an operation finds it: absent accounts read as the fresh state
StateOf(cs, c) == IF c \in DOMAIN cs THEN cs[c] ELSE ClientState(c)

\* the final record has been processed: last_action, last_result, prev_states
\* and prev_details describe it
Processed == Done /\ last_action \in TransactionDetails

Unchanged == clients_states = prev_states /\ id_to_details = prev_details

\* every account but c is as it was before the final record
OthersUnchanged(c) ==
    /\ DOMAIN clients_states \ {c} = DOMAIN prev_states \ {c}
    /\ \A d \in DOMAIN prev_states \ {c} : clients_states[d] = prev_states[d]

Finite(x) == x.k = "fin"

\* ------------------------------------------------------------------ C1
\* C1: every account of the ledger satisfies total == available + held
\* (the sum and the comparison taken in f32, as the program would compute them).
C1_TotalIsAvailablePlusHeld ==
    \A c \in DOMAIN clients_states :
        clients_states[c].total
            = FAdd(clients_states[c].available, clients_states[c].held)

\* ------------------------------------------------------------------ C2
\* C2: locked is monotonic: an account that is locked stays present and locked
\* across every step, whatever record is processed.
C2_LockedMonotonic ==
    [][\A c \in DOMAIN clients_states :
          clients_states[c].locked =>
              (c \in DOMAIN clients_states' /\ clients_states'[c].locked)]_vars

\* a record accepted on an account that was already locked, which stays locked
C2_Witness ==
    /\ Processed
    /\ last_result
    /\ last_action.client \in DOMAIN prev_states
    /\ prev_states[last_action.client].locked
    /\ clients_states[last_action.client].locked
    /\ clients_states # prev_states

\* ------------------------------------------------------------------ C3
\* C3: a deposit or withdrawal whose transaction id is already journaled is
\* rejected, whichever account or amount it carries, and changes neither the
\* ledger (balances, accounts) nor the journal.
C3_ReplayRejected ==
    (/\ Processed
     /\ last_action.transaction_type \in {"Deposit", "Withdrawal"}
     /\ last_action.tx \in DOMAIN prev_details)
    => (~last_result /\ Unchanged)

\* a well-formed deposit of a journaled id, sent for another account that does
\* not exist yet, is rejected
C3_Witness ==
    /\ Processed
    /\ last_action.transaction_type = "Deposit"
    /\ last_action.amount = Some(Fin(1))
    /\ last_action.tx \in DOMAIN prev_details
    /\ prev_details[last_action.tx].client # last_action.client
    /\ last_action.client \notin DOMAIN clients_states
    /\ ~last_result

\* ------------------------------------------------------------------ C4
\* C4: a dispute, resolve or chargeback of a transaction id that is not journaled
\* when it is processed is rejected and changes nothing; and a deposit or
\* withdrawal of that id processed afterwards has no dispute effect: it leaves
\* every held amount and every lock as they are.
C4_UnjournaledReferenceRejected ==
    /\ (/\ Processed
        /\ last_action.transaction_type \in Lifecycle
        /\ last_action.tx \notin DOMAIN prev_details)
       => (~last_result /\ Unchanged)
    /\ ~Done
       => \A t \in TxIds \ DOMAIN id_to_details :
            \* the lifecycle record leaves the state as it is ...
            /\ \A a \in LifecycleRecords :
                 a.tx = t
                 => HandlerResult(clients_states, id_to_details, a)
                       = Rejected(clients_states, id_to_details)
            \* ... so a deposit or withdrawal of the id that follows acts on it
            /\ \A d \in JournaledKindRecords :
                 d.tx = t
                 => LET r == HandlerResult(clients_states, id_to_details, d)
                    IN \A c \in DOMAIN r.cs :
                          /\ r.cs[c].held = StateOf(clients_states, c).held
                          /\ r.cs[c].locked = StateOf(clients_states, c).locked

\* a well-formed dispute on a funded account is rejected because its transaction
\* id is not journaled yet, while a deposit of that id would be accepted next
C4_Witness ==
    /\ Processed
    /\ last_action.transaction_type = "Dispute"
    /\ last_action.amount = None
    /\ last_action.tx \notin DOMAIN id_to_details
    /\ last_action.client \in DOMAIN clients_states
    /\ FGe(clients_states[last_action.client].available, Fin(1))
    /\ ~last_result
    /\ \E d \in DepositRecords :
         /\ d.tx = last_action.tx
         /\ d.client = last_action.client
         /\ TransactionsProcessor_apply_deposit(clients_states, id_to_details, d).ok

\* ------------------------------------------------------------------ C5
\* C5: in every reachable state every account has available >= 0.
C5_AvailableNonNegative ==
    \A c \in DOMAIN clients_states : FGe(clients_states[c].available, Fin(0))

\* ------------------------------------------------------------------ C6
\* C6: a record the router rejects leaves the whole ledger and the whole journal
\* exactly as they were.
C6_RejectionChangesNothing ==
    (Processed /\ ~last_result) => Unchanged

\* ------------------------------------------------------------------ C7
\* the account the final record acts on, before and after it
Before == StateOf(prev_states, last_action.client)
After == clients_states[last_action.client]

\* the f32 sum of the amounts journaled under the ids of the sequence ids, added
\* in that order
RECURSIVE SumInOrder(_, _)
SumInOrder(jr, ids) ==
    IF ids = <<>> THEN Fin(0)
    ELSE FAdd(SumInOrder(jr, SubSeq(ids, 1, Len(ids) - 1)),
              unwrap(jr[ids[Len(ids)]].amount))

\* the orders in which the journaled ids can have been processed
Orders(jr) ==
    {ids \in [1..Cardinality(DOMAIN jr) -> DOMAIN jr] :
        \A i, j \in DOMAIN ids : i # j => ids[i] # ids[j]}

\* every record processed so far was an accepted deposit to account c: each has
\* left one journal entry, and every entry is a deposit of c
OnlyDepositsTo(c) ==
    /\ curr_idx > 0
    /\ curr_idx = Cardinality(DOMAIN id_to_details)
    /\ \A t \in DOMAIN id_to_details :
         /\ id_to_details[t].transaction_type = "Deposit"
         /\ id_to_details[t].client = c

\* C7: an accepted deposit creates the account if absent (zero balances,
\* unlocked), adds the amount to available and to total and leaves held and
\* locked as they were; and after accepted deposits only, all to one account,
\* available = total = the sum of the amounts, held = 0 and locked = false.
C7_DepositEffect ==
    /\ (Processed /\ last_action.transaction_type = "Deposit" /\ last_result)
       => /\ last_action.client \in DOMAIN clients_states
          /\ After.client = last_action.client
          /\ After.available = FAdd(Before.available, unwrap(last_action.amount))
          /\ After.total = FAdd(Before.total, unwrap(last_action.amount))
          /\ After.held = Before.held
          /\ After.locked = Before.locked
          /\ OthersUnchanged(last_action.client)
    /\ \A c \in Clients :
         OnlyDepositsTo(c)
         => /\ DOMAIN clients_states = {c}
            /\ clients_states[c].held = Fin(0)
            /\ clients_states[c].locked = FALSE
            /\ clients_states[c].total = clients_states[c].available
            /\ \E ids \in Orders(id_to_details) :
                 clients_states[c].available = SumInOrder(id_to_details, ids)

\* two accepted deposits of 1 to one account and nothing else
C7_Witness ==
    \E c \in Clients :
        /\ OnlyDepositsTo(c)
        /\ Cardinality(DOMAIN id_to_details) = 2
        /\ clients_states[c].available = Fin(2)
        /\ clients_states[c].total = Fin(2)

\* ------------------------------------------------------------------ C8
\* the ledger's withdraw is reached: the record is a withdrawal with a present
\* amount that is not <= 0 and a transaction id that is not journaled
WithdrawReached ==
    /\ Processed
    /\ last_action.transaction_type = "Withdrawal"
    /\ is_some(last_action.amount)
    /\ ~FLe(unwrap(last_action.amount), Fin(0))
    /\ last_action.tx \notin DOMAIN prev_details

\* C8: withdraw fails exactly when the account is absent or its available is not
\* at least the amount (so amount == available is accepted and leaves 0); on
\* success available and total each decrease by the amount, held and locked are
\* unchanged; on failure the account is unchanged.
C8_WithdrawEffect ==
    WithdrawReached
    => LET amt == unwrap(last_action.amount)
           c == last_action.client
       IN /\ last_result <=> (c \in DOMAIN prev_states
                                /\ FGe(prev_states[c].available, amt))
          /\ last_result
             => /\ After.available = FSub(Before.available, amt)
                /\ After.total = FSub(Before.total, amt)
                /\ After.held = Before.held
                /\ After.locked = Before.locked
                /\ After.client = c
                /\ OthersUnchanged(c)
          /\ ~last_result => clients_states = prev_states

\* a withdrawal of exactly the available amount is accepted and leaves 0
C8_Witness ==
    /\ WithdrawReached
    /\ last_result
    /\ Finite(unwrap(last_action.amount))
    /\ Before.available = unwrap(last_action.amount)
    /\ After.available = Fin(0)

\* ------------------------------------------------------------------ C9
\* the ledger's open_dispute is reached: the record is a dispute without amount
\* whose transaction is journaled for the acting account
DisputeReached ==
    /\ Processed
    /\ last_action.transaction_type = "Dispute"
    /\ is_none(last_action.amount)
    /\ last_action.tx \in DOMAIN prev_details
    /\ prev_details[last_action.tx].client = last_action.client

\* C9: open_dispute fails exactly when the account is absent or its available is
\* not at least the amount; on success it moves the amount from available to
\* held and leaves total and locked unchanged.
C9_DisputeEffect ==
    DisputeReached
    => LET amt == unwrap(prev_details[last_action.tx].amount)
           c == last_action.client
       IN /\ last_result <=> (c \in DOMAIN prev_states
                                /\ FGe(prev_states[c].available, amt))
          /\ last_result
             => /\ After.available = FSub(Before.available, amt)
                /\ After.held = FAdd(Before.held, amt)
                /\ After.total = Before.total
                /\ After.locked = Before.locked
                /\ After.client = c
                /\ OthersUnchanged(c)
          /\ ~last_result => clients_states = prev_states
          /\ id_to_details = prev_details

\* an accepted dispute that moved a finite amount from available to held
C9_Witness ==
    /\ DisputeReached
    /\ last_result
    /\ Finite(Before.available)
    /\ After.held = unwrap(prev_details[last_action.tx].amount)
    /\ After.available = Fin(Before.available.v - After.held.v)
    /\ After.available # Before.available

\* ------------------------------------------------------------------ C10
\* the ledger's resolve_dispute is reached
ResolveReached ==
    /\ Processed
    /\ last_action.transaction_type = "Resolve"
    /\ is_none(last_action.amount)
    /\ last_action.tx \in DOMAIN prev_details
    /\ prev_details[last_action.tx].client = last_action.client

\* resolve fails exactly when the account is absent or its held is not at least
\* the amount; on success available += amount and held -= amount, total and
\* locked unchanged
C10_ResolveEffect ==
    ResolveReached
    => LET amt == unwrap(prev_details[last_action.tx].amount)
           c == last_action.client
       IN /\ last_result <=> (c \in DOMAIN prev_states
                                /\ FGe(prev_states[c].held, amt))
          /\ last_result
             => /\ After.available = FAdd(Before.available, amt)
                /\ After.held = FSub(Before.held, amt)
                /\ After.total = Before.total
                /\ After.locked = Before.locked
          /\ ~last_result => clients_states = prev_states

\* an accepted dispute of T immediately followed by a resolve of T: the resolve
\* is accepted and the account is as it was before the dispute
C10_DisputeThenResolveRestores ==
    (DisputeReached /\ last_result)
    => LET r == TransactionsProcessor_apply_resolve(
                    clients_states, id_to_details,
                    [last_action EXCEPT !.transaction_type = "Resolve"])
       IN /\ r.ok
          /\ r.cs[last_action.client] = prev_states[last_action.client]

\* C10: resolve_dispute reverses open_dispute: the resolve step is as stated, and
\* dispute(T) followed at once by resolve(T) restores available, held, total and
\* locked.
C10_ResolveReversesDispute ==
    C10_ResolveEffect /\ C10_DisputeThenResolveRestores

\* ------------------------------------------------------------------ C11
\* the ledger's chargeback is reached: the record is a chargeback without amount
\* whose transaction is journaled for the acting account
ChargebackReached ==
    /\ Processed
    /\ last_action.transaction_type = "Chargeback"
    /\ is_none(last_action.amount)
    /\ last_action.tx \in DOMAIN prev_details
    /\ prev_details[last_action.tx].client = last_action.client

\* chargeback fails exactly when the account is absent or its held is not at
\* least the amount, and then leaves the account (locked included) as it was; on
\* success held and total each decrease by the amount, locked becomes true and
\* available is unchanged
C11_ChargebackStep ==
    ChargebackReached
    => LET amt == unwrap(prev_details[last_action.tx].amount)
           c == last_action.client
       IN /\ last_result <=> (c \in DOMAIN prev_states
                                /\ FGe(prev_states[c].held, amt))
          /\ last_result
             => /\ After.held = FSub(Before.held, amt)
                /\ After.total = FSub(Before.total, amt)
                /\ After.locked = TRUE
                /\ After.available = Before.available
                /\ After.client = c
                /\ OthersUnchanged(c)
          /\ ~last_result => clients_states = prev_states
          /\ id_to_details = prev_details

\* an accepted deposit(T, amt) that creates its account, followed by dispute(T)
\* and chargeback(T): both are accepted and the account ends with
\* available = held = total = 0 and locked
C11_DepositDisputeChargeback ==
    \A d \in DepositRecords :
        d.client \notin DOMAIN clients_states
        => LET r1 == TransactionsProcessor_apply_deposit(clients_states, id_to_details, d)
               r2 == TransactionsProcessor_apply_dispute(
                         r1.cs, r1.jr,
                         [d EXCEPT !.transaction_type = "Dispute", !.amount = None])
               r3 == TransactionsProcessor_apply_chargeback(
                         r2.cs, r2.jr,
                         [d EXCEPT !.transaction_type = "Chargeback", !.amount = None])
           IN r1.ok
              => /\ r2.ok
                 /\ r3.ok
                 /\ r3.cs[d.client]
                      = [ClientState(d.client) EXCEPT !.locked = TRUE]

\* C11: chargeback fails exactly when the account is absent or held < amount
\* (locked left as it was); on success held and total decrease by the amount,
\* locked becomes true and available is unchanged; and deposit(T, amt) on a
\* fresh account, dispute(T), chargeback(T) ends with available = held = total
\* = 0 and locked = true.
C11_ChargebackEffect ==
    C11_ChargebackStep /\ C11_DepositDisputeChargeback

\* ------------------------------------------------------------------ C12
\* amounts that violate the shape of a deposit or withdrawal: absent, zero,
\* negative
BadAmounts == {None, Some(Fin(0)), Some(Fin(0 - 1)), Some(Fin(0 - TwoPow24)), Some(NInf)}

\* records that violate the shape of their kind
ShapeViolations ==
    [transaction_type : {"Deposit", "Withdrawal"}, client : Clients, tx : TxIds,
     amount : BadAmounts]
    \cup
    [transaction_type : Lifecycle, client : Clients, tx : TxIds,
     amount : {Some(x) : x \in AmountValues}]

\* C12: in every state with a record still to come the router rejects, without any change of the
\* ledger or the journal, every deposit or withdrawal whose amount is absent,
\* zero or negative and every dispute, resolve or chargeback that carries an
\* amount; and a record of that shape that ends the stream was rejected and
\* changed nothing.
C12_ShapeValidation ==
    /\ ~Done
       => \A a \in ShapeViolations :
            HandlerResult(clients_states, id_to_details, a)
               = Rejected(clients_states, id_to_details)
    /\ (Processed /\ last_action \in ShapeViolations) => (~last_result /\ Unchanged)

\* a dispute carrying an amount is rejected although its transaction is journaled
\* for the acting account and the account could cover it
C12_Witness ==
    /\ Processed
    /\ last_action.transaction_type = "Dispute"
    /\ is_some(last_action.amount)
    /\ last_action.tx \in DOMAIN prev_details
    /\ prev_details[last_action.tx].client = last_action.client
    /\ last_action.client \in DOMAIN prev_states
    /\ FGe(prev_states[last_action.client].available,
           unwrap(prev_details[last_action.tx].amount))
    /\ ~last_result
    /\ Unchanged

\* ------------------------------------------------------------------ C13
\* the final record is a dispute and the router's outcome is that of the
\* ledger's apply_dispute on the acting account with the journaled amount
DispatchedToLedger ==
    LET r == ClientsStatesMgr_apply_dispute(
                 prev_states, last_action.client,
                 unwrap(prev_details[last_action.tx].amount))
    IN /\ last_result = r.ok
       /\ clients_states = r.cs
       /\ id_to_details = prev_details

\* C13: a dispute without amount whose transaction id is journaled is applied by
\* the ledger to the acting account with the journaled amount, whether or not
\* the journaled record belongs to that account; the router itself rejects a
\* dispute only for a present amount or an id absent from the journal.
C13_DisputeActsOnActingAccount ==
    (Processed /\ last_action.transaction_type = "Dispute")
    => IF is_some(last_action.amount) \/ last_action.tx \notin DOMAIN prev_details
       THEN ~last_result /\ Unchanged
       ELSE DispatchedToLedger

\* C13 as the code has it: the dispute reaches the ledger only when the journaled
\* record belongs to the acting account; the router rejects a dispute for a
\* present amount, an id absent from the journal, or an id journaled for another
\* account.
C13_DisputeActsOnOwnTransaction ==
    (Processed /\ last_action.transaction_type = "Dispute")
    => IF \/ is_some(last_action.amount)
          \/ last_action.tx \notin DOMAIN prev_details
          \/ prev_details[last_action.tx].client # last_action.client
       THEN ~last_result /\ Unchanged
       ELSE DispatchedToLedger

\* a dispute of another account's transaction is rejected although the acting
\* account could cover the journaled amount
C13_Witness ==
    /\ Processed
    /\ last_action.transaction_type = "Dispute"
    /\ is_none(last_action.amount)
    /\ last_action.tx \in DOMAIN prev_details
    /\ prev_details[last_action.tx].client # last_action.client
    /\ last_action.client \in DOMAIN prev_states
    /\ FGe(prev_states[last_action.client].available,
           unwrap(prev_details[last_action.tx].amount))
    /\ ~last_result
    /\ clients_states[last_action.client].held = Fin(0)

\* ------------------------------------------------------------------ C14
\* C14: a chargeback or a resolve whose acting account differs from the account
\* of the journaled transaction it references is rejected; no balance of any
\* account changes and no account becomes locked.
C14_MismatchedAccountRejected ==
    (/\ Processed
     /\ last_action.transaction_type \in {"Chargeback", "Resolve"}
     /\ last_action.tx \in DOMAIN prev_details
     /\ prev_details[last_action.tx].client # last_action.client)
    => (~last_result /\ Unchanged)

\* a chargeback of another account's transaction is rejected although the acting
\* account holds at least the journaled amount; neither account is locked
C14_Witness ==
    /\ Processed
    /\ last_action.transaction_type = "Chargeback"
    /\ is_none(last_action.amount)
    /\ last_action.tx \in DOMAIN prev_details
    /\ prev_details[last_action.tx].client # last_action.client
    /\ last_action.client \in DOMAIN prev_states
    /\ FGe(prev_states[last_action.client].held,
           unwrap(prev_details[last_action.tx].amount))
    /\ ~last_result
    /\ ~clients_states[last_action.client].locked
    /\ ~clients_states[prev_details[last_action.tx].client].locked

\* ------------------------------------------------------------------ C15
\* the ledger with the lock flag of account c inverted
FlipLocked(cs, c) ==
    IF c \in DOMAIN cs THEN [cs EXCEPT ![c].locked = ~cs[c].locked] ELSE cs

Balances(st) == <<st.available, st.held, st.total>>

\* record a has the same outcome on the ledger cs as on the ledger with the
\* acting account's lock inverted: same result, same journal, same balances
SameWhateverLock(cs, jr, a) ==
    LET r == HandlerResult(cs, jr, a)
        q == HandlerResult(FlipLocked(cs, a.client), jr, a)
    IN /\ r.ok = q.ok
       /\ r.jr = q.jr
       /\ DOMAIN r.cs = DOMAIN q.cs
       /\ \A c \in DOMAIN r.cs : Balances(r.cs[c]) = Balances(q.cs[c])

\* C15: the lock never causes a refusal: whatever record comes next for an
\* existing account, its acceptance and its effect on the balances and the
\* journal are the same with that account locked or unlocked; and a deposit with a positive amount
\* and a fresh transaction id to a locked account is accepted and adds the
\* amount to available and total.
C15_LockNeverRefuses ==
    /\ ~Done
       => \A a \in TransactionDetails :
            a.client \in DOMAIN clients_states
            => SameWhateverLock(clients_states, id_to_details, a)
    /\ (/\ Processed
        /\ last_action.transaction_type = "Deposit"
        /\ last_action.client \in DOMAIN prev_states
        /\ prev_states[last_action.client].locked
        /\ is_some(last_action.amount)
        /\ FGe(unwrap(last_action.amount), Fin(0))
        /\ ~FLe(unwrap(last_action.amount), Fin(0))
        /\ last_action.tx \notin DOMAIN prev_details)
       => /\ last_result
          /\ After.available = FAdd(Before.available, unwrap(last_action.amount))
          /\ After.total = FAdd(Before.total, unwrap(last_action.amount))
          /\ After.locked

\* a deposit to an account locked by a chargeback is accepted and raises
\* available and total
C15_Witness ==
    /\ Processed
    /\ last_action.transaction_type = "Deposit"
    /\ last_action.client \in DOMAIN prev_states
    /\ prev_states[last_action.client].locked
    /\ last_result
    /\ Finite(Before.available) /\ Finite(After.available)
    /\ Finite(Before.total) /\ Finite(After.total)
    /\ After.available.v > Before.available.v
    /\ After.total.v > Before.total.v
    /\ After.locked

\* ------------------------------------------------------------------ C16
\* a deposit to account c has been accepted: an accepted deposit is journaled
\* under its id and journal records are never removed or altered
DepositAccepted(c) ==
    \E t \in DOMAIN id_to_details :
        /\ id_to_details[t].transaction_type = "Deposit"
        /\ id_to_details[t].client = c

\* C16: an account exists in the ledger if and only if a deposit to its id has
\* been accepted; a withdrawal, dispute, resolve or chargeback on an absent
\* account fails and does not create it; an account is never removed; the
\* snapshot holds exactly one entry per account.
C16_AccountLifecycle ==
    /\ \A c \in Clients : c \in DOMAIN clients_states <=> DepositAccepted(c)
    /\ (/\ Processed
        /\ last_action.transaction_type \in {"Withdrawal"} \cup Lifecycle
        /\ last_action.client \notin DOMAIN prev_states)
       => (~last_result /\ last_action.client \notin DOMAIN clients_states)
    /\ Processed => DOMAIN prev_states \subseteq DOMAIN clients_states
    /\ Cardinality(get_states(clients_states)) = Cardinality(DOMAIN clients_states)
    /\ \A c \in DOMAIN clients_states :
         \E st \in get_states(clients_states) : st.client = c

\* ------------------------------------------------------------------ C17
\* C17: journal records are write-once: across every step every journaled
\* transaction id stays journaled and its record (account, amount, kind) is
\* identical afterwards, whatever record is processed.
C17_JournalWriteOnce ==
    [][\A t \in DOMAIN id_to_details :
          /\ t \in DOMAIN id_to_details'
          /\ id_to_details'[t] = id_to_details[t]]_vars

\* a deposit or withdrawal reusing a journaled id with another amount has been
\* processed and the journaled record is as it was
C17_Witness ==
    /\ Processed
    /\ last_action.transaction_type \in {"Deposit", "Withdrawal"}
    /\ last_action.tx \in DOMAIN prev_details
    /\ is_some(last_action.amount)
    /\ ~FLe(unwrap(last_action.amount), Fin(0))
    /\ last_action.amount # prev_details[last_action.tx].amount
    /\ id_to_details[last_action.tx] = prev_details[last_action.tx]
    /\ id_to_details[last_action.tx].tx = last_action.tx

\* ------------------------------------------------------------------ C18
\* C18: an account is locked if and only if a chargeback on it has been
\* accepted earlier in the stream (accounts are created unlocked); and a final
\* record that is not an accepted chargeback leaves every lock as it was.
C18_LockedIffChargeback ==
    /\ charged_back \subseteq DOMAIN clients_states
    /\ \A c \in DOMAIN clients_states : clients_states[c].locked <=> c \in charged_back
    /\ (Processed /\ ~(last_action.transaction_type = "Chargeback" /\ last_result))
       => \A c \in DOMAIN clients_states :
            clients_states[c].locked = StateOf(prev_states, c).locked

\* an accepted chargeback has just locked its account while another account,
\* never charged back, is unlocked
C18_Witness ==
    /\ Processed
    /\ last_action.transaction_type = "Chargeback"
    /\ last_result
    /\ ~prev_states[last_action.client].locked
    /\ clients_states[last_action.client].locked
    /\ charged_back = {last_action.client}
    /\ \E d \in DOMAIN clients_states :
         d # last_action.client /\ ~clients_states[d].locked

\* ------------------------------------------------------------------ C19
\* C19: a record of unrecognized kind is rejected and changes neither the ledger
\* nor the journal, whatever account id, transaction id (journaled or not) or
\* amount it carries; it is consumed like any other record, so the loop goes on
\* to the next one.
C19_UnknownRejected ==
    /\ ~Done
       => \A a \in UnknownRecords :
            HandlerResult(clients_states, id_to_details, a)
               = Rejected(clients_states, id_to_details)
    /\ (Processed /\ last_action.transaction_type = "Unknown")
       => (~last_result /\ Unchanged /\ curr_idx = records_len)

\* an unrecognized record carrying an amount and a journaled transaction id of
\* its account, which could cover it, is rejected
C19_Witness ==
    /\ Processed
    /\ last_action.transaction_type = "Unknown"
    /\ is_some(last_action.amount)
    /\ last_action.tx \in DOMAIN prev_details
    /\ prev_details[last_action.tx].client = last_action.client
    /\ last_action.client \in DOMAIN prev_states
    /\ FGe(prev_states[last_action.client].available, unwrap(last_action.amount))
    /\ ~last_result
    /\ Unchanged

\* ------------------------------------------------------------------ C20
\* account c has a dispute open on one of its journaled transactions
HasOpenDispute(c) ==
    \E t \in open_disputes : t \in DOMAIN id_to_details /\ id_to_details[t].client = c

\* C20: a resolve or chargeback of transaction T is accepted only while a
\* dispute of T is open (accepted earlier and not closed since by an accepted
\* resolve or chargeback of T); and an account holds funds exactly while one of
\* its transactions is under an open dispute.
C20_DisputeLifecycle ==
    /\ ~Done
       => \A a \in ClosingRecords :
            HandlerResult(clients_states, id_to_details, a).ok
               => a.tx \in open_disputes
    /\ \A c \in DOMAIN clients_states :
         clients_states[c].held # Fin(0) <=> HasOpenDispute(c)

\* ------------------------------------------------------------------ C21
\* C21: in every reachable state every account has held >= 0.
C21_HeldNonNegative ==
    \A c \in DOMAIN clients_states : FGe(clients_states[c].held, Fin(0))

\* ------------------------------------------------------------------ C22
\* the stream is drained: the loop reaches the end of the stream
C22_Terminates == <>Done

\* every step hands out exactly the next record of the stream, whatever the
\* outcome of the one before: none is skipped, retried or taken twice
C22_EachRecordOnce ==
    [][curr_idx' = curr_idx + 1 /\ curr_idx' <= records_len
       /\ records_len' = records_len]_vars

\* a record the router rejects leaves no trace in the snapshot
C22_OnlyAcceptedReflected ==
    ~Done
    => \A a \in TransactionDetails :
         LET r == HandlerResult(clients_states, id_to_details, a)
         IN ~r.ok => get_states(r.cs) = get_states(clients_states)

\* C22: processing a finite stream terminates; the router takes each record
\* exactly once, in order, whatever was rejected before, and stops at the end of
\* the stream; the snapshot then reflects all and only the accepted records.
C22_DrainsStream ==
    /\ C22_Terminates
    /\ C22_EachRecordOnce
    /\ []C22_OnlyAcceptedReflected

\* ------------------------------------------------------------------ C23
\* C23: the ledger mutation and the journal insert of a deposit or withdrawal
\* come together: a deposit or withdrawal that has changed a balance is accepted
\* and journaled under its id, and a record enters the journal only with an
\* accepted deposit or withdrawal of that id, one record at a time.
C23_LedgerAndJournalTogether ==
    /\ (/\ Processed
        /\ last_action.transaction_type \in {"Deposit", "Withdrawal"}
        /\ clients_states # prev_states)
       => /\ last_result
          /\ last_action.tx \notin DOMAIN prev_details
          /\ last_action.tx \in DOMAIN id_to_details
          /\ id_to_details[last_action.tx] = last_action
    /\ (Processed /\ id_to_details # prev_details)
       => /\ last_action.transaction_type \in {"Deposit", "Withdrawal"}
          /\ last_result
          /\ DOMAIN id_to_details = DOMAIN prev_details \cup {last_action.tx}
          /\ last_action.tx \notin DOMAIN prev_details

\* ------------------------------------------------------------------ C24
\* record a changes the ledger or the journal
Changes(cs, jr, a) ==
    LET r == HandlerResult(cs, jr, a) IN r.cs # cs \/ r.jr # jr

\* handling a then b leaves the ledger and the journal as handling b then a
Commute(cs, jr, a, b) ==
    LET ra == HandlerResult(cs, jr, a)
        rb == HandlerResult(cs, jr, b)
        rab == HandlerResult(ra.cs, ra.jr, b)
        rba == HandlerResult(rb.cs, rb.jr, a)
    IN rab.cs = rba.cs /\ rab.jr = rba.jr

\* both records are deposits or withdrawals and carry the same transaction id
SharedId(a, b) ==
    /\ a.tx = b.tx
    /\ a.transaction_type \in {"Deposit", "Withdrawal"}
    /\ b.transaction_type \in {"Deposit", "Withdrawal"}

\* every record the loader may hand out next, paired with its outcome
Outcomes(cs, jr) == {<<x, HandlerResult(cs, jr, x)>> : x \in TransactionDetails}

\* C24: a reordering of the stream that keeps the order of the records of each
\* account gives the same final snapshot.  Such a reordering is a series of
\* exchanges of two neighbouring records of different accounts, so: after every
\* part of a stream, the two records of different accounts that follow can be
\* exchanged.  (Two records that both leave the state as it is can be exchanged
\* trivially; a is one that changes it.)
C24_PerAccountOrderSuffices ==
    \A a \in TransactionDetails :
        Changes(clients_states, id_to_details, a)
        => \A b \in TransactionDetails :
             b.client # a.client
             => Commute(clients_states, id_to_details, a, b)

\* C24 as the code has it: the exchange holds for two records of different
\* accounts unless both are deposits or withdrawals carrying the same
\* transaction id, i.e. for streams in which no transaction id is carried by
\* deposits or withdrawals of two different accounts.
C24_PerAccountOrderSufficesForOwnIds ==
    LET R == Outcomes(clients_states, id_to_details) IN
    \A p \in R :
        (p[2].cs # clients_states \/ p[2].jr # id_to_details)
        => \A q \in R :
             (q[1].client # p[1].client /\ ~SharedId(p[1], q[1]))
             => LET rab == HandlerResult(p[2].cs, p[2].jr, q[1])
                    rba == HandlerResult(q[2].cs, q[2].jr, p[1])
                IN rab.cs = rba.cs /\ rab.jr = rba.jr

\* a dispute of one account and a deposit to another are both accepted, in
\* either order, with the same outcome
C24_Witness ==
    /\ clients_states # Empty
    /\ \E a \in DisputeRecords, b \in DepositRecords :
         /\ a.client # b.client
         /\ a.tx # b.tx
         /\ HandlerResult(clients_states, id_to_details, a).ok
         /\ HandlerResult(clients_states, id_to_details, b).ok
         /\ Commute(clients_states, id_to_details, a, b)

\* ------------------------------------------------------------------ C25
\* the amount is present and > 0
Positive(amount) ==
    is_some(amount) /\ FGe(unwrap(amount), Fin(0)) /\ ~FLe(unwrap(amount), Fin(0))

\* C25: a rejected deposit or withdrawal does not consume its transaction id:
\* whatever deposit or withdrawal comes next, if it is rejected the journal is as
\* it was; and as long as an id is not journaled, a deposit with that id and a
\* positive amount is accepted and journaled, and so is a withdrawal with that
\* id and a positive amount that the account can cover.
C25_RejectionKeepsIdFree ==
    ~Done
    => /\ \A a \in JournaledKindRecords :
            LET r == HandlerResult(clients_states, id_to_details, a)
            IN ~r.ok => r.jr = id_to_details
       /\ \A d \in JournaledKindRecords :
            (/\ d.tx \notin DOMAIN id_to_details
             /\ Positive(d.amount)
             /\ d.transaction_type = "Withdrawal"
                => /\ d.client \in DOMAIN clients_states
                   /\ FGe(clients_states[d.client].available, unwrap(d.amount)))
            => LET r == HandlerResult(clients_states, id_to_details, d)
               IN /\ r.ok
                  /\ d.tx \in DOMAIN r.jr
                  /\ r.jr[d.tx] = d

\* a withdrawal the account cannot cover is rejected, its id stays out of the
\* journal, and a deposit with that id is accepted next and journaled
C25_Witness ==
    /\ ~Done
    /\ \E a \in WithdrawalRecords :
         /\ a.client \in DOMAIN clients_states
         /\ Positive(a.amount)
         /\ ~FGe(clients_states[a.client].available, unwrap(a.amount))
         /\ a.tx \notin DOMAIN id_to_details
         /\ LET r == HandlerResult(clients_states, id_to_details, a)
                d == [a EXCEPT !.transaction_type = "Deposit"]
                r2 == HandlerResult(r.cs, r.jr, d)
            IN /\ ~r.ok
               /\ a.tx \notin DOMAIN r.jr
               /\ r2.ok
               /\ r2.jr[a.tx] = d

\* ------------------------------------------------------------------ C26
\* C26: conservation: each account's total is the sum of its accepted deposits
\* minus the sum of its accepted withdrawals minus the sum of its accepted
\* chargebacks, and its held is the sum of its accepted disputes minus the sum
\* of its accepted resolves and chargebacks.
C26_Conservation ==
    \A c \in DOMAIN clients_states :
        /\ clients_states[c].total = ideal[c].total
        /\ clients_states[c].held = ideal[c].held

\* ------------------------------------------------------------------ C27
\* C27: cross-account isolation: whatever record of account A comes next, every
\* other account has the same available, held, total and locked after it as
\* before it, and no other account appears or disappears, even when the record
\* names a transaction journaled for the other account.
C27_CrossAccountIsolation ==
    ~Done
    => \A a \in TransactionDetails :
         LET r == HandlerResult(clients_states, id_to_details, a)
         IN \A b \in Clients \ {a.client} :
              /\ b \in DOMAIN r.cs <=> b \in DOMAIN clients_states
              /\ b \in DOMAIN clients_states => r.cs[b] = clients_states[b]

\* account A can cover the amount of a transaction journaled for account B, whose
\* funds are under dispute, and A's dispute and A's resolve of it are the next record
C27_Witness ==
    /\ ~Done
    /\ \E t \in DOMAIN id_to_details, a \in Clients :
         LET b == id_to_details[t].client
             amount == unwrap(id_to_details[t].amount)
         IN /\ a # b
            /\ a \in DOMAIN clients_states
            /\ b \in DOMAIN clients_states
            /\ t \in open_disputes
            /\ FGe(clients_states[a].available, amount)
            /\ FGe(clients_states[b].held, amount)
            /\ ~FLe(amount, Fin(0))
            /\ \A k \in Lifecycle :
                 HandlerResult(clients_states, id_to_details,
                     [transaction_type |-> k, client |-> a, tx |-> t, amount |-> None]).cs
                 = clients_states

\* ------------------------------------------------------------------ C28
\* C28: journal well-formedness: every journaled record is a deposit or a
\* withdrawal, stored under its own id, with an amount that is present and > 0
\* and an account id that is in the ledger; and a resolve or chargeback that is
\* accepted next is of an account on which a dispute was accepted earlier.
C28_JournalWellFormed ==
    /\ \A t \in DOMAIN id_to_details :
         /\ id_to_details[t].transaction_type \in {"Deposit", "Withdrawal"}
         /\ id_to_details[t].tx = t
         /\ Positive(id_to_details[t].amount)
         /\ id_to_details[t].client \in DOMAIN clients_states
    /\ ~Done
       => \A a \in ClosingRecords :
            HandlerResult(clients_states, id_to_details, a).ok
            => a.client \in disputed

\* a deposit and a withdrawal are journaled, and a resolve and a chargeback of
\* an account with an accepted dispute are both acceptable next
C28_Witness ==
    /\ ~Done
    /\ \E t \in DOMAIN id_to_details : id_to_details[t].transaction_type = "Withdrawal"
    /\ \E a \in ResolveRecords :
         /\ a.client \in disputed
         /\ HandlerResult(clients_states, id_to_details, a).ok
         /\ HandlerResult(clients_states, id_to_details,
                          [a EXCEPT !.transaction_type = "Chargeback"]).ok

====
